---------------------------- MODULE Spec2Model ----------------------------
(***************************************************************************)
(* Model of the Boostly AI SDR server (server.js): the per-call media      *)
(* bridge between the Twilio media stream and the OpenAI Realtime socket,  *)
(* the MCP calendar tool endpoint, and the call session registry.          *)
(*                                                                         *)
(* Spec      : one call's bridge (GET /media-stream handler).              *)
(* ToolSpec  : POST /mcp/call_tool over the shared bookedDemos map.        *)
(* RegistrySpec : POST /make-call and POST /call-status over the shared    *)
(*             activeCallSessions map, with one stream awaiting its start. *)
(***************************************************************************)
EXTENDS Integers, Sequences, FiniteSets, TLC

(***************************************************************************)
(* Bounds of the model.                                                    *)
(***************************************************************************)
MaxOaSent == 9       \* messages the bridge may send to the model socket
MaxMedia == 2        \* inbound telephony audio chunks
MaxDelta == 2        \* outbound model audio chunks
MaxTicks == 3        \* clock advances during the call
MaxToolCalls == 1    \* tool-invocation events the model emits
MaxBookings == 2     \* book_demo calls of one run
MaxStatus == 3       \* status callbacks of one run
MaxMakeCall == 3     \* /make-call requests to the limiter of src/call-leads.js
MaxSwitch == 2       \* switches between the events of two concurrent calls
MaxClock == 4        \* clock advances of the registry, half an expiry delay each

(***************************************************************************)
(* Program constants and the abstraction of the wall clock.                *)
(***************************************************************************)
CommitPeriodMs == 300      \* `now - lastCommitTs > CommitPeriodMs`
ExpiryDelayMs == 60000     \* setTimeout(() => activeCallSessions.delete(callId), 60_000)
MaxAttempts == 2           \* `if (attempts >= 2)` of src/call-leads.js
TickMs == 150              \* granularity of the modelled clock
Epoch == 1000              \* Date.now() when the call starts (any value > 300)

Null == "null"
Sids == {"MZ1"}
CallIds == {"c1", "c2"}
Tos == {"+15550001", "+15550002"}
Lead == [name |-> "Ann", company |-> "Cafe"]
\* The lead of the /make-call request that created call `id`.
LeadOf(id) == IF id = "c1" THEN Lead ELSE [name |-> "Bob", company |-> "Deli"]

\* leadData while it is null or undefined: leadData?.name is undefined
NoLead == [name |-> "undefined", company |-> "undefined"]

VARIABLES
    \* ---- per-call bridge state (closure of the /media-stream handler)
    oaReadyState,        \* openAiWs.readyState
    twReadyState,        \* readyState of the telephony connection
    streamSid,           \* let streamSid = null
    callId,              \* let callId = null
    leadData,            \* let leadData = null
    lastCommitTs,        \* let lastCommitTs = 0
    oaPing,              \* TRUE while the setInterval of oaPing is armed
    twilioPing,          \* TRUE while the setInterval of twilioPing is armed
    \* ---- the two transports and the clock
    oaSent,              \* messages accepted by openAiWs.send, in order
    twSent,              \* messages accepted by connection.socket.send, in order
    now,                 \* Date.now()
    \* ---- the peers
    inSeq,               \* inbound audio chunks the telephony side has sent
    outSeq,              \* outbound audio chunks the model has sent
    inFlight,            \* responses requested of the model and not yet done
    earlyDeltas,         \* outbound chunks that arrived while streamSid was unset
    toolCalls,           \* tool-invocation events the model has emitted
    stopSeen,            \* the telephony side has sent its stop event
    \* ---- process-wide state
    activeCallSessions,  \* const activeCallSessions = new Map()
    callState,           \* per call id: where the outbound call of /make-call stands
    terminalAt,          \* per call id: when its first terminal status came (0: never)
    nStatus,             \* status callbacks received
    expiries,            \* the pending setTimeout deletions, in scheduling order
    bookedDemos,         \* const bookedDemos = new Map()
    today,               \* day of January 2024 that `new Date()` falls on
    slackUrl,            \* SLACK_WEBHOOK_URL is configured
    adminPhone,          \* ADMIN_PHONE is configured
    booking,             \* the book_demo requests of the run, by arrival number
    nBooked,             \* book_demo requests received
    reply,               \* the last request to POST /mcp/call_tool and its reply
    \* ---- a second call bridged at the same time
    cur,                 \* the call (1 or 2) whose bridge the variables above hold
    otherCall,           \* the bridge state of the other call
    nSwitch,             \* times the event loop went from one call's events to the other's
    \* ---- the call-attempt limiter of src/call-leads.js
    callAttempts,        \* const callAttempts = new Map(), 0 for a number without entry
    making,              \* the /make-call requests awaiting twilioClient.calls.create
    placedCalls,         \* per destination number: calls the provider has placed
    nMakeCall            \* /make-call requests received

bridgeVars == <<oaReadyState, twReadyState, streamSid, callId, leadData,
                lastCommitTs, oaPing, twilioPing>>
wireVars == <<oaSent, twSent>>
peerVars == <<inSeq, outSeq, inFlight, earlyDeltas, toolCalls, stopSeen>>
toolVars == <<bookedDemos, today, slackUrl, adminPhone, booking, nBooked, reply>>
registryVars == <<activeCallSessions, callState, terminalAt, nStatus, expiries>>
pairVars == <<cur, otherCall, nSwitch>>
limiterVars == <<callAttempts, making, placedCalls, nMakeCall>>
vars == <<bridgeVars, wireVars, peerVars, now, registryVars, toolVars, pairVars,
          limiterVars>>

(***************************************************************************)
(* Messages.                                                               *)
(***************************************************************************)
\* A message to the model socket: its type, the handler that sent it and,
\* for input_audio_buffer.append, the chunk it carries (0: none).
OaMsg(type, by, audio) == [type |-> type, by |-> by, audio |-> audio]

\* A plausible slip: the media event is built without the stream id.
TwMedia_NoSid(sid, payload) == [event |-> "media", streamSid |-> Null, payload |-> payload]

\* { event: 'media', streamSid, media: { payload } }
TwMedia(sid, payload) == [event |-> "media", streamSid |-> sid, payload |-> payload]

\* A plausible slip: a frame written to a socket that is not open still
\* goes out.
OaSend_AnyState(log, msgs) == log \o msgs

\* openAiWs.send(...): ws accepts a frame only while the socket is OPEN; on a
\* socket that is CLOSING or CLOSED the frame is discarded.
OaSend(log, msgs) == IF oaReadyState = "OPEN" THEN log \o msgs ELSE log

\* Number of response.create messages in a list of messages.
RECURSIVE CountType(_, _)
CountType(msgs, type) ==
    IF msgs = <<>> THEN 0
    ELSE (IF Head(msgs).type = type THEN 1 ELSE 0) + CountType(Tail(msgs), type)

\* Responses the model has been asked for after the bridge sent `msgs`.
Requested(msgs) == IF oaReadyState = "OPEN" THEN CountType(msgs, "response.create") ELSE 0

(***************************************************************************)
(* openAiWs.on('open')                                                     *)
(***************************************************************************)
\* sendSessionUpdate(): one session.update
sendSessionUpdate(by) == <<OaMsg("session.update", by, 0)>>

\* A plausible slip: the kickoff item is sent a second time.
Kickoff_Twice(by) == <<OaMsg("conversation.item.create", by, 0),
                       OaMsg("conversation.item.create", by, 0),
                       OaMsg("response.create", by, 0)>>

\* the kickoff item followed by response.create
Kickoff(by) == <<OaMsg("conversation.item.create", by, 0),
                 OaMsg("response.create", by, 0)>>

OpenMsgs == sendSessionUpdate("open") \o Kickoff("open")

OaOpen ==
    /\ oaReadyState = "CONNECTING"
    /\ Len(oaSent) + Len(OpenMsgs) <= MaxOaSent
    /\ oaReadyState' = "OPEN"
    /\ oaSent' = oaSent \o OpenMsgs
    /\ inFlight' = inFlight + CountType(OpenMsgs, "response.create")
    /\ UNCHANGED <<limiterVars, pairVars, twReadyState, streamSid, callId, leadData, lastCommitTs,
                   oaPing, twilioPing, twSent, now, inSeq, outSeq, earlyDeltas,
                   toolCalls, stopSeen, registryVars, toolVars>>

(***************************************************************************)
(* openAiWs.on('message')                                                  *)
(***************************************************************************)
\* ws delivers frames of the peer until the socket is closed, also after the
\* bridge has called close().
OaReceiving == oaReadyState \in {"OPEN", "CLOSING"}

\* connection.socket.send(...) inside try/catch: the frame goes out only while
\* the telephony socket is open.
TwSend(log, msg) == IF twReadyState = "OPEN" THEN Append(log, msg) ELSE log

\* A plausible slip: the chunk is sent without looking at streamSid.
ForwardDelta_NoSidCheck(log, chunk) == TwSend(log, TwMedia(streamSid, chunk))

\* if (!streamSid) { warn: dropping frame } else { send the media event }
ForwardDelta(log, chunk) ==
    IF streamSid = Null THEN log ELSE TwSend(log, TwMedia(streamSid, chunk))

\* response.audio.delta / response.output_audio.delta; an event whose delta is
\* empty or missing is skipped by `&& response.delta`.
OaAudioDelta ==
    /\ OaReceiving
    /\ \E type \in {"response.audio.delta", "response.output_audio.delta"},
          hasDelta \in BOOLEAN :
        /\ IF hasDelta
           THEN /\ inFlight > 0
                /\ outSeq < MaxDelta
                /\ outSeq' = outSeq + 1
                /\ twSent' = ForwardDelta(twSent, outSeq + 1)
                /\ earlyDeltas' = IF streamSid = Null
                                  THEN earlyDeltas \cup {outSeq + 1}
                                  ELSE earlyDeltas
           ELSE UNCHANGED <<outSeq, earlyDeltas, twSent>>
    /\ UNCHANGED <<limiterVars, pairVars, bridgeVars, oaSent, now, inSeq, inFlight, toolCalls,
                   stopSeen, registryVars, toolVars>>

\* A plausible slip: the response is requested before the commit.
SpeechStoppedMsgs_ResponseFirst ==
    <<OaMsg("response.create", "speech_stopped", 0),
      OaMsg("input_audio_buffer.commit", "speech_stopped", 0)>>

\* A plausible slip: the handler commits and requests no response.
SpeechStoppedMsgs_NoResponse ==
    <<OaMsg("input_audio_buffer.commit", "speech_stopped", 0)>>

\* input_audio_buffer.speech_stopped: commit, then response.create
SpeechStoppedMsgs == <<OaMsg("input_audio_buffer.commit", "speech_stopped", 0),
                       OaMsg("response.create", "speech_stopped", 0)>>

OaSpeechStopped ==
    /\ OaReceiving
    /\ CountType(oaSent, "input_audio_buffer.append") > 0
    /\ Len(oaSent) + Len(SpeechStoppedMsgs) <= MaxOaSent
    /\ oaSent' = OaSend(oaSent, SpeechStoppedMsgs)
    /\ inFlight' = inFlight + Requested(SpeechStoppedMsgs)
    /\ UNCHANGED <<limiterVars, pairVars, bridgeVars, twSent, now, inSeq, outSeq, earlyDeltas,
                   toolCalls, stopSeen, registryVars, toolVars>>

\* response.done: the model reports a requested response finished; the
\* handler only logs the event type.
OaResponseDone ==
    /\ OaReceiving
    /\ inFlight > 0
    /\ inFlight' = inFlight - 1
    /\ UNCHANGED <<limiterVars, pairVars, bridgeVars, wireVars, now, inSeq, outSeq, earlyDeltas,
                   toolCalls, stopSeen, registryVars, toolVars>>

\* A tool invocation of the model (response.function_call_arguments.done):
\* no branch of the handler matches it, the event type is logged.
OaToolCall ==
    /\ OaReceiving
    /\ inFlight > 0
    /\ toolCalls < MaxToolCalls
    /\ toolCalls' = toolCalls + 1
    /\ UNCHANGED <<limiterVars, pairVars, bridgeVars, wireVars, now, inSeq, outSeq, inFlight,
                   earlyDeltas, stopSeen, registryVars, toolVars>>

\* A plausible slip: an error event is treated as fatal and the model socket
\* is closed.
OaErrorEvent_EndsCall ==
    /\ OaReceiving
    /\ oaReadyState' = "CLOSING"
    /\ UNCHANGED <<limiterVars, pairVars, twReadyState, streamSid, callId, leadData, lastCommitTs,
                   oaPing, twilioPing, wireVars, peerVars, now, registryVars,
                   toolVars>>

\* type 'error': console.error only
OaErrorEvent ==
    /\ OaReceiving
    /\ UNCHANGED <<limiterVars, pairVars, bridgeVars, wireVars, peerVars, now, registryVars,
                   toolVars>>

\* Any other event type (response.created, session.created, ...): logged only.
OaOtherEvent ==
    /\ OaReceiving
    /\ UNCHANGED <<limiterVars, pairVars, bridgeVars, wireVars, peerVars, now, registryVars,
                   toolVars>>

\* try { response = JSON.parse(msg); } catch { return; }
OaBadJson ==
    /\ OaReceiving
    /\ UNCHANGED <<limiterVars, pairVars, bridgeVars, wireVars, peerVars, now, registryVars,
                   toolVars>>

(***************************************************************************)
(* openAiWs.on('close') / openAiWs.on('error'): both only log.             *)
(***************************************************************************)
\* The model side closes the socket, or the close the bridge asked for
\* completes.
OaClose ==
    /\ oaReadyState \in {"OPEN", "CLOSING"}
    /\ oaReadyState' = "CLOSED"
    /\ UNCHANGED <<limiterVars, pairVars, twReadyState, streamSid, callId, leadData, lastCommitTs,
                   oaPing, twilioPing, wireVars, peerVars, now,
                   registryVars, toolVars>>

\* The connection attempt fails or the open socket breaks: ws emits 'error'
\* and then 'close'.
OaError ==
    /\ oaReadyState \in {"CONNECTING", "OPEN"}
    /\ oaReadyState' = "CLOSED"
    /\ UNCHANGED <<limiterVars, pairVars, twReadyState, streamSid, callId, leadData, lastCommitTs,
                   oaPing, twilioPing, wireVars, peerVars, now,
                   registryVars, toolVars>>

\* const oaPing = setInterval(() => { if (OPEN) openAiWs.ping(); }, 20_000)
OaPingFire ==
    /\ oaPing
    /\ UNCHANGED vars

(***************************************************************************)
(* connection.on('message'): the telephony events                          *)
(***************************************************************************)
\* activeCallSessions.get(id): undefined when the id has no entry
SessionGet(id) ==
    IF id \in DOMAIN activeCallSessions THEN activeCallSessions[id] ELSE NoLead

\* A plausible slip: the query of the URL is preferred to the parameter.
StartCallId_QueryFirst(param, query) ==
    IF query # Null THEN query ELSE IF param # Null THEN param ELSE callId

\* case 'start': streamSid, then callId from customParameters, else from the
\* query of req.url, then the lead of that call id.
\*   sid    data.start.streamSid
\*   param  data.start.customParameters.callId (Null: absent)
\*   query  callId of the query of req.url (Null: absent)
StartCallId(param, query) ==
    LET fromParam == IF param # Null THEN param ELSE callId
    IN  IF fromParam # Null THEN fromParam ELSE query

StartParams == CallIds \cup {Null}
StartQueries == {"c1", Null}

TwStartEvent(sid, param, query) ==
    /\ twReadyState = "OPEN"
    /\ streamSid = Null
    /\ streamSid' = sid
    /\ callId' = StartCallId(param, query)
    /\ leadData' = SessionGet(StartCallId(param, query))
    /\ UNCHANGED <<limiterVars, pairVars, oaReadyState, twReadyState, lastCommitTs, oaPing,
                   twilioPing, wireVars, peerVars, now, registryVars,
                   toolVars>>

TwStart ==
    \E sid \in Sids, param \in StartParams, query \in StartQueries :
        TwStartEvent(sid, param, query)

\* A plausible slip: the comparison is `>=`.
CommitDue_AtLeast == now - lastCommitTs >= CommitPeriodMs

\* case 'media': append the chunk, and commit when more than 300 ms have
\* passed since the last commit of this handler.
CommitDue == now - lastCommitTs > CommitPeriodMs

\* A plausible slip: the chunk is appended twice.
MediaMsgs_Twice(chunk) ==
    <<OaMsg("input_audio_buffer.append", "media", chunk),
      OaMsg("input_audio_buffer.append", "media", chunk)>> \o
    (IF CommitDue THEN <<OaMsg("input_audio_buffer.commit", "media", 0)>> ELSE <<>>)

MediaMsgs(chunk) ==
    <<OaMsg("input_audio_buffer.append", "media", chunk)>> \o
    (IF CommitDue THEN <<OaMsg("input_audio_buffer.commit", "media", 0)>> ELSE <<>>)

\* One media event; hasPayload: data.media?.payload is present.
TwMediaEvent(hasPayload) ==
    /\ twReadyState = "OPEN"
    /\ streamSid # Null /\ ~stopSeen
    /\ inSeq < MaxMedia
    /\ inSeq' = inSeq + 1
    /\ IF oaReadyState = "OPEN" /\ hasPayload
       THEN /\ Len(oaSent) + Len(MediaMsgs(inSeq + 1)) <= MaxOaSent
            /\ oaSent' = oaSent \o MediaMsgs(inSeq + 1)
            /\ lastCommitTs' = IF CommitDue THEN now ELSE lastCommitTs
       ELSE UNCHANGED <<oaSent, lastCommitTs>>
    /\ UNCHANGED <<limiterVars, pairVars, oaReadyState, twReadyState, streamSid, callId, leadData,
                   oaPing, twilioPing, twSent, now, outSeq, inFlight,
                   earlyDeltas, toolCalls, stopSeen, registryVars,
                   toolVars>>

TwMediaIn == \E hasPayload \in BOOLEAN : TwMediaEvent(hasPayload)

\* case 'stop': commit, then response.create, when the model socket is open
StopMsgs == <<OaMsg("input_audio_buffer.commit", "stop", 0),
              OaMsg("response.create", "stop", 0)>>

TwStop ==
    /\ twReadyState = "OPEN"
    /\ streamSid # Null /\ ~stopSeen
    /\ IF oaReadyState = "OPEN"
       THEN /\ Len(oaSent) + Len(StopMsgs) <= MaxOaSent
            /\ oaSent' = oaSent \o StopMsgs
            /\ inFlight' = inFlight + CountType(StopMsgs, "response.create")
       ELSE UNCHANGED <<oaSent, inFlight>>
    /\ stopSeen' = TRUE
    /\ UNCHANGED <<limiterVars, pairVars, bridgeVars, twSent, now, inSeq, outSeq, earlyDeltas,
                   toolCalls, registryVars, toolVars>>

\* default: break  (connected, mark, dtmf, ...)
TwOtherEvent ==
    /\ twReadyState = "OPEN"
    /\ UNCHANGED <<limiterVars, pairVars, bridgeVars, wireVars, peerVars, now, registryVars,
                   toolVars>>

\* openAiWs.close() guarded by `openAiWs.readyState === WebSocket.OPEN`
CloseModelSocket == IF oaReadyState = "OPEN" THEN "CLOSING" ELSE oaReadyState

\* A plausible slip: a frame that does not parse ends the call's model
\* session.
TwBadJson_ClosesModel ==
    /\ twReadyState = "OPEN"
    /\ oaReadyState' = CloseModelSocket
    /\ UNCHANGED <<limiterVars, pairVars, twReadyState, streamSid, callId, leadData,
                   lastCommitTs, oaPing, twilioPing, wireVars, peerVars, now,
                   registryVars, toolVars>>

\* try { data = JSON.parse(raw); } catch { return; }
TwBadJson ==
    /\ twReadyState = "OPEN"
    /\ UNCHANGED <<limiterVars, pairVars, bridgeVars, wireVars, peerVars, now, registryVars,
                   toolVars>>

(***************************************************************************)
(* connection.on('close') and connection.socket.on('close'):               *)
(* clearInterval(oaPing); close the model socket if it is OPEN;            *)
(* clearInterval(twilioPing).                                              *)
(***************************************************************************)

TwClose ==
    /\ twReadyState = "OPEN"
    /\ twReadyState' = "CLOSED"
    /\ oaPing' = FALSE
    /\ oaReadyState' = CloseModelSocket
    /\ twilioPing' = FALSE
    /\ UNCHANGED <<limiterVars, pairVars, streamSid, callId, leadData, lastCommitTs, wireVars,
                   peerVars, now, registryVars, toolVars>>

\* connection.socket.on('error'): console.error only
TwError ==
    /\ twReadyState = "OPEN"
    /\ UNCHANGED <<limiterVars, pairVars, bridgeVars, wireVars, peerVars, now, registryVars,
                   toolVars>>

\* const twilioPing = setInterval(() => { try { ping() } catch {} }, 25_000)
TwPingFire ==
    /\ twilioPing
    /\ UNCHANGED vars

\* The wall clock advances.  Date.now() is read by the media handler only,
\* and only with both sockets open.
Tick ==
    /\ oaReadyState = "OPEN" /\ twReadyState = "OPEN"
    /\ now < Epoch + MaxTicks * TickMs
    /\ now' = now + TickMs
    /\ UNCHANGED <<limiterVars, pairVars, bridgeVars, wireVars, peerVars, registryVars,
                   toolVars>>

(***************************************************************************)
(* POST /mcp/call_tool                                                     *)
(*                                                                         *)
(* Dates are the days of January 2024 (the 1st is a Monday).  A string is  *)
(* the sequence of its tokens: "Jan 12 at 9:00 AM" is                      *)
(* <<"Jan", " ", "1", "2", " at ", "9:00 AM">>, so that includes() and     *)
(* split(' at ') work on it as they do on the characters.                  *)
(***************************************************************************)
Missing == "undefined"

\* undefined where a string (a sequence of tokens) is expected
MissingStr == <<Missing>>

\* const DEMO_SLOTS
DEMO_SLOTS ==
    [monday    |-> <<"9:00 AM", "10:00 AM", "11:00 AM", "2:00 PM", "3:00 PM", "4:00 PM">>,
     tuesday   |-> <<"9:00 AM", "10:00 AM", "11:00 AM", "2:00 PM", "3:00 PM", "4:00 PM">>,
     wednesday |-> <<"9:00 AM", "10:00 AM", "11:00 AM", "2:00 PM", "3:00 PM", "4:00 PM">>,
     thursday  |-> <<"9:00 AM", "10:00 AM", "11:00 AM", "2:00 PM", "3:00 PM", "4:00 PM">>,
     friday    |-> <<"9:00 AM", "10:00 AM", "11:00 AM", "2:00 PM", "3:00 PM">>]

\* const days = ['sunday', 'monday', ...]; days.indexOf(name) is the index - 1
days == <<"sunday", "monday", "tuesday", "wednesday", "thursday", "friday",
          "saturday">>

IndexOf(name) == (CHOOSE i \in 1..Len(days) : days[i] = name) - 1

\* String.prototype.toLowerCase on the inputs of the model
ToLowerCase(w) == IF w = "Monday" THEN "monday" ELSE w

\* Date.prototype.getDay(): 0 is Sunday
GetDay(d) == d % 7

\* Intl.DateTimeFormat('en-US', { weekday: 'long' }).format(d).toLowerCase()
DayName(d) == days[GetDay(d) + 1]

Digit(n) == <<"0", "1", "2", "3", "4", "5", "6", "7", "8", "9">>[n + 1]

\* toLocaleDateString('en-US', { month: 'short', day: 'numeric' }): "Jan 12"
DateStr(d) ==
    <<"Jan", " ">> \o
    (IF d < 10 THEN <<Digit(d)>> ELSE <<Digit(d \div 10), Digit(d % 10)>>)

\* `${dateStr} at ${time}`
Display(d, time) == DateStr(d) \o <<" at ", time>>

\* String.prototype.includes
Includes(str, sub) ==
    \E k \in 0..(Len(str) - Len(sub)) : SubSeq(str, k + 1, k + Len(sub)) = sub

\* str.split(' at ')[1]: what stands between the first and the second ' at ';
\* MissingStr when the string holds no ' at '.
SplitAt1(str) ==
    LET seps == {i \in 1..Len(str) : str[i] = " at "}
    IN  IF seps = {} THEN MissingStr
        ELSE LET first == CHOOSE i \in seps : \A j \in seps : i <= j
                 later == {i \in seps : i > first}
                 stop  == IF later = {} THEN Len(str) + 1
                          ELSE CHOOSE i \in later : \A j \in later : i <= j
             IN  SubSeq(str, first + 1, stop - 1)

\* A plausible slip: `|| 7` is left out, so the named weekday resolves to today
\* when today is that weekday.
DaysUntilTarget_NoRollover(when) ==
    (IndexOf(ToLowerCase(when)) - GetDay(today) + 7) % 7

\* The date check_availability looks at.
\*   'tomorrow': the next day; monday..friday in any letter case: the next
\*   such weekday, a full week ahead when today is that weekday;
\*   anything else ('today', 'saturday', 'sunday', ...): today.
DaysUntilTarget(when) ==
    LET d == (IndexOf(ToLowerCase(when)) - GetDay(today) + 7) % 7
    IN  IF d = 0 THEN 7 ELSE d

TargetDate(when) ==
    IF when = "tomorrow" THEN today + 1
    ELSE IF ToLowerCase(when) \in {"monday", "tuesday", "wednesday", "thursday", "friday"}
         THEN today + DaysUntilTarget(when)
         ELSE today

\* bookedForDate: the time of every booked demo whose datetime includes the
\* date string.
BookedForDate(d) ==
    {SplitAt1(bookedDemos[id].datetime) :
        id \in {i \in DOMAIN bookedDemos :
                    /\ Includes(bookedDemos[i].datetime, DateStr(d))
                    /\ SplitAt1(bookedDemos[i].datetime) \notin {MissingStr, <<>>}}}

\* allSlots.filter(slot => !bookedForDate.includes(slot))
RECURSIVE Filter(_, _)
Filter(slots, taken) ==
    IF slots = <<>> THEN <<>>
    ELSE (IF <<Head(slots)>> \in taken THEN <<>> ELSE <<Head(slots)>>)
         \o Filter(Tail(slots), taken)

\* A reply of the endpoint, with the request it answers (tool and argument)
\* and whether a notification of that request had failed; NoReply: no request
\* has been answered yet.
NoReply == [tool |-> "", arg |-> "", failed |-> FALSE, success |-> FALSE,
            message |-> "", date |-> <<>>, dayName |-> "", slots |-> <<>>,
            confirmationId |-> 0, datetime |-> <<>>, error |-> "",
            notifyFailed |-> FALSE]

\* The handler throws (a TypeError): the request fails without a tool result.
Thrown(tool, arg) == [NoReply EXCEPT !.tool = tool, !.arg = arg, !.failed = TRUE]

\* demo.datetime.includes(...) throws on a demo stored without datetime
ForEachThrows ==
    \E id \in DOMAIN bookedDemos : bookedDemos[id].datetime = MissingStr

\* dayName.charAt(0).toUpperCase() + dayName.slice(1)
Capitalize(name) ==
    CASE name = "sunday" -> "Sunday"
      [] name = "monday" -> "Monday"
      [] name = "tuesday" -> "Tuesday"
      [] name = "wednesday" -> "Wednesday"
      [] name = "thursday" -> "Thursday"
      [] name = "friday" -> "Friday"
      [] name = "saturday" -> "Saturday"
      [] OTHER -> name

\* if (dayName === 'saturday' || dayName === 'sunday')
IsWeekend(d) == DayName(d) \in {"saturday", "sunday"}

\* if (tool === 'check_availability') { ... }
\*   when: args.when (Missing: no such field); NoArgs: the body has no arguments
NoArgs == "noargs"

CheckAvailabilityReply(when) ==
    LET w == IF when = Missing THEN "" ELSE when
        d == TargetDate(w)
    IN  IF when = NoArgs THEN Thrown("check_availability", when)
        ELSE IF IsWeekend(d)
        THEN [NoReply EXCEPT !.tool = "check_availability", !.arg = when,
                             !.success = TRUE,
                             !.message = "No demos on weekends"]
        ELSE IF ForEachThrows THEN Thrown("check_availability", when)
        ELSE [NoReply EXCEPT !.tool = "check_availability", !.arg = when,
                             !.success = TRUE, !.date = DateStr(d),
                             !.dayName = Capitalize(DayName(d)),
                             !.slots = Filter(DEMO_SLOTS[DayName(d)],
                                              BookedForDate(d))]

Whens == {"today", "tomorrow", "monday", "Monday", "friday", "saturday",
          "sunday", Missing, NoArgs}

CheckAvailability ==
    /\ \E when \in Whens : reply' = CheckAvailabilityReply(when)
    /\ UNCHANGED <<limiterVars, pairVars, bridgeVars, wireVars, peerVars, now, registryVars,
                   bookedDemos, today, slackUrl, adminPhone, booking, nBooked>>

\* A plausible slip: a tool name that is not check_availability falls through
\* to the booking branch, which stores the arguments it was given.
UnknownTool_FallsThrough ==
    /\ \E tool \in {"foo", Missing} :
          reply' = [NoReply EXCEPT !.tool = tool, !.error = "Unknown tool"]
    /\ bookedDemos' = [id \in DOMAIN bookedDemos \cup {now} |->
                          [id |-> now, restaurantName |-> Missing,
                           ownerName |-> Missing, phone |-> Missing,
                           datetime |-> <<"none">>, status |-> "scheduled"]]
    /\ UNCHANGED <<limiterVars, pairVars, bridgeVars, wireVars, peerVars, now, registryVars,
                   today, slackUrl, adminPhone, booking, nBooked>>

\* return { error: 'Unknown tool' }
UnknownTool ==
    /\ \E tool \in {"foo", Missing} :
          reply' = [NoReply EXCEPT !.tool = tool, !.error = "Unknown tool"]
    /\ UNCHANGED <<limiterVars, pairVars, bridgeVars, wireVars, peerVars, now, registryVars,
                   bookedDemos, today, slackUrl, adminPhone, booking, nBooked>>

\* async function storeDemoData(demoData): the demo is stored under
\* `DEMO-${Date.now()}`, whatever fields it has.
StoredDemo(args) ==
    [id |-> now, restaurantName |-> args.restaurantName,
     ownerName |-> args.ownerName, phone |-> args.phone,
     datetime |-> args.datetime, status |-> "scheduled"]

storeDemoData(args) ==
    [id \in DOMAIN bookedDemos \cup {now} |->
        IF id = now THEN StoredDemo(args) ELSE bookedDemos[id]]

\* The arguments book_demo is called with in the model; NoBookArgs stands for
\* a body without arguments, which storeDemoData stores before its first
\* console.log of a field throws.
BookDays == {12}
BookTimes == {"9:00 AM"}
Datetimes == {Display(d, t) : d \in BookDays, t \in BookTimes}
                 \cup {MissingStr}
BookArgs == [restaurantName : {"Cafe"}, ownerName : {"Ann"},
             phone : {"555"}, datetime : Datetimes]
                \cup [restaurantName : {"Cafe"}, ownerName : {"Ann"},
                      phone : {Missing}, datetime : {Display(12, "9:00 AM")}]
NoBookArgs == [restaurantName |-> Missing, ownerName |-> Missing,
               phone |-> Missing, datetime |-> MissingStr]

\* A book_demo request being handled: what its handler awaits (slack, sms),
\* the id it stored its demo under, its arguments and whether a notification
\* of it has failed.  NoBooking: a free place; a handler that has returned or
\* thrown leaves its place free.
NoBooking == [stage |-> "none", id |-> 0, args |-> NoBookArgs,
              notifyFailed |-> FALSE]

\* The place a new request takes: the first free one.
FreePlace == CHOOSE n \in 1..MaxBookings :
                 /\ booking[n] = NoBooking
                 /\ \A m \in 1..(n - 1) : booking[m] # NoBooking

\* The reply of a book_demo request that got past its notifications.
BookDemoReply(id, args) ==
    [NoReply EXCEPT !.tool = "book_demo", !.arg = args, !.success = TRUE,
                    !.confirmationId = id,
                    !.message = "Demo confirmed",
                    !.datetime = args.datetime]

\* What the request waits for next: the Slack webhook when SLACK_WEBHOOK_URL
\* is set, then the SMS when ADMIN_PHONE is set, then nothing.
AfterStore == IF slackUrl THEN "slack" ELSE IF adminPhone THEN "sms" ELSE "done"
AfterSlack == IF adminPhone THEN "sms" ELSE "done"

\* if (tool === 'book_demo') { await storeDemoData(args); await
\* sendSlackNotification(args); await sendSMS(args); return {...} }
\* A request arrives; earlier requests may still be awaiting their
\* notifications.
BookDemo ==
    /\ nBooked < MaxBookings
    /\ nBooked' = nBooked + 1
    /\ \E args \in BookArgs \cup {NoBookArgs} :
        /\ bookedDemos' = storeDemoData(args)
        /\ IF args = NoBookArgs
           THEN /\ reply' = Thrown("book_demo", args)
                /\ booking' = booking
           ELSE IF AfterStore = "done"
           THEN /\ reply' = BookDemoReply(now, args)
                /\ booking' = booking
           ELSE /\ reply' = reply
                /\ booking' = [booking EXCEPT ![FreePlace] =
                                  [stage |-> AfterStore, id |-> now,
                                   args |-> args, notifyFailed |-> FALSE]]
    /\ UNCHANGED <<limiterVars, pairVars, bridgeVars, wireVars, peerVars, now, registryVars,
                   today, slackUrl, adminPhone>>

\* How a notification attempt ends: the collaborator accepts it, answers with
\* an error status, or the call rejects (network error, Twilio error).
Outcomes == {"ok", "status", "rejects"}

\* A plausible slip: the fetch is awaited outside a try/catch, so a rejection
\* leaves the function as an exception.
sendSlackNotification_NoCatch(outcome) ==
    IF outcome = "rejects" THEN "throws" ELSE "returns"

\* sendSlackNotification: try { res = await fetch(...); if (res.ok) log else
\* log error } catch (err) { log }: the function returns in every case.
sendSlackNotification(outcome) == "returns"

\* sendSMS: try { await twilioClient.messages.create(...) } catch (err) { log }
sendSMS(outcome) == "returns"

\* The handler of request n after a notification it awaited has settled:
\* an exception of the notification ends the request without a tool result;
\* otherwise the handler goes on to `next`.
Settled(n, returned, outcome, next) ==
    /\ booking' = [booking EXCEPT ![n] =
                      IF returned = "throws" \/ next = "done" THEN NoBooking
                      ELSE [@ EXCEPT !.stage = next,
                                     !.notifyFailed = @ \/ outcome # "ok"]]
    /\ reply' = IF returned = "throws"
                THEN Thrown("book_demo", booking[n].args)
                ELSE IF next = "done"
                     THEN [BookDemoReply(booking[n].id, booking[n].args)
                              EXCEPT !.notifyFailed =
                                         booking[n].notifyFailed \/ outcome # "ok"]
                     ELSE reply

\* The Slack webhook call of a request settles.
SlackSettles ==
    /\ \E n \in 1..MaxBookings, outcome \in Outcomes :
        /\ booking[n].stage = "slack"
        /\ Settled(n, sendSlackNotification(outcome), outcome, AfterSlack)
    /\ UNCHANGED <<limiterVars, pairVars, bridgeVars, wireVars, peerVars, now, registryVars,
                   bookedDemos, today, slackUrl, adminPhone, nBooked>>

\* The SMS call of a request settles.
SmsSettles ==
    /\ \E n \in 1..MaxBookings, outcome \in Outcomes :
        /\ booking[n].stage = "sms"
        /\ Settled(n, sendSMS(outcome), outcome, "done")
    /\ UNCHANGED <<limiterVars, pairVars, bridgeVars, wireVars, peerVars, now, registryVars,
                   bookedDemos, today, slackUrl, adminPhone, nBooked>>

\* The wall clock advances between two book_demo requests (the only readers
\* of Date.now() in the endpoint), at most once after each.
ToolTick ==
    /\ nBooked < MaxBookings
    /\ now < Epoch + nBooked * TickMs
    /\ now < Epoch + MaxTicks * TickMs
    /\ now' = now + TickMs
    /\ UNCHANGED <<limiterVars, pairVars, bridgeVars, wireVars, peerVars, registryVars,
                   toolVars>>

(***************************************************************************)
(* The session registry: POST /make-call, POST /call-status and the        *)
(* deletions they schedule.                                                 *)
(*                                                                         *)
(* callState[id] is "none" until generateCallId() has produced the id (an  *)
(* id is never produced twice), "placing" while twilioClient.calls.create  *)
(* is awaited, then "placed" or "failed", and "ended" once the telephony   *)
(* provider has reported a terminal status of the call, at terminalAt[id].  *)
(***************************************************************************)
\* if (!to || !name || !company) return reply.status(400).send(...)
MakeCallRejected ==
    /\ UNCHANGED <<limiterVars, pairVars, bridgeVars, wireVars, peerVars, now, registryVars, toolVars>>

\* const callId = generateCallId(); activeCallSessions.set(callId, {...});
\* then the handler awaits twilioClient.calls.create(...)
MakeCall ==
    /\ \E id \in CallIds :
        /\ callState[id] = "none"
        /\ activeCallSessions' =
              [c \in DOMAIN activeCallSessions \cup {id} |->
                  IF c = id THEN LeadOf(id) ELSE activeCallSessions[c]]
        /\ callState' = [callState EXCEPT ![id] = "placing"]
    /\ UNCHANGED <<limiterVars, pairVars, bridgeVars, wireVars, peerVars, now, terminalAt, nStatus,
                   expiries, toolVars>>

\* calls.create resolves: reply.send({ success: true, ... })
CallPlaced ==
    /\ \E id \in CallIds :
        /\ callState[id] = "placing"
        /\ callState' = [callState EXCEPT ![id] = "placed"]
    /\ UNCHANGED <<limiterVars, pairVars, bridgeVars, wireVars, peerVars, now, activeCallSessions,
                   terminalAt, nStatus, expiries, toolVars>>

\* calls.create rejects: catch (err) { reply.status(500).send(...) }
CallPlaceFails ==
    /\ \E id \in CallIds :
        /\ callState[id] = "placing"
        /\ callState' = [callState EXCEPT ![id] = "failed"]
    /\ UNCHANGED <<limiterVars, pairVars, bridgeVars, wireVars, peerVars, now, activeCallSessions,
                   terminalAt, nStatus, expiries, toolVars>>

\* The values of CallStatus in the model: two of the non-terminal ones and
\* the four the handler acts on.
Statuses == {"ringing", "in-progress", "completed", "no-answer", "busy", "failed"}

\* A plausible slip: 'failed' is missing from the list.
TerminalStatuses_NoFailed == {"completed", "no-answer", "busy"}

\* ['completed', 'no-answer', 'busy', 'failed'].includes(CallStatus)
TerminalStatuses == {"completed", "no-answer", "busy", "failed"}

\* The statuses with which the provider reports that a call is over.
Ends(status) == status \in {"completed", "no-answer", "busy", "failed"}

\* POST /call-status?callId=id with CallStatus = status (id Null: no callId
\* in the query): a terminal status schedules the deletion of the session.
CallStatusHandler(id, status) ==
    /\ nStatus < MaxStatus
    /\ nStatus' = nStatus + 1
    /\ expiries' = IF status \in TerminalStatuses
                   THEN Append(expiries, [id |-> id, due |-> now + ExpiryDelayMs])
                   ELSE expiries
    /\ callState' = IF id \in CallIds /\ Ends(status)
                    THEN [callState EXCEPT ![id] = "ended"]
                    ELSE callState
    /\ terminalAt' = IF id \in CallIds /\ Ends(status) /\ terminalAt[id] = 0
                     THEN [terminalAt EXCEPT ![id] = now]
                     ELSE terminalAt
    /\ UNCHANGED <<limiterVars, pairVars, bridgeVars, wireVars, peerVars, now, activeCallSessions,
                   toolVars>>

\* The provider reports on the calls it was asked to place.
CallStatus ==
    \E id \in CallIds \cup {Null}, status \in Statuses :
        /\ id \in CallIds => callState[id] \in {"placing", "placed", "ended"}
        /\ CallStatusHandler(id, status)

\* A plausible slip: a timer runs only once the clock has passed its due
\* time.
Due_Late(t) == {i \in 1..Len(expiries) : expiries[i].due < t}

\* The timers that have run once the clock reads t: setTimeout runs its
\* callback when the delay has elapsed.
Due(t) == {i \in 1..Len(expiries) : expiries[i].due <= t}

\* The timers from the i-th on that are still pending once the clock reads t.
RECURSIVE PendingAt(_, _)
PendingAt(i, t) ==
    IF i > Len(expiries) THEN <<>>
    ELSE (IF i \in Due(t) THEN <<>> ELSE <<expiries[i]>>) \o PendingAt(i + 1, t)

\* A plausible slip: the timer empties the registry.
Deleted_Cleared(sessions, ids) == IF ids = {} THEN sessions ELSE <<>>

\* activeCallSessions.delete(callId), for the call id of each timer that
\* runs: an id without an entry is left out without effect.
Deleted(sessions, ids) == [c \in DOMAIN sessions \ ids |-> sessions[c]]

\* The clock advances by half an expiry delay; the setTimeout callbacks that
\* are due by then run: () => activeCallSessions.delete(callId).
Clock ==
    /\ now < Epoch + MaxClock * (ExpiryDelayMs \div 2)
    /\ now' = now + ExpiryDelayMs \div 2
    /\ activeCallSessions' =
          Deleted(activeCallSessions, {expiries[i].id : i \in Due(now')})
    /\ expiries' = PendingAt(1, now')
    /\ UNCHANGED <<limiterVars, pairVars, bridgeVars, wireVars, peerVars, callState, terminalAt,
                   nStatus, toolVars>>

(***************************************************************************)
(* POST /make-call of src/call-leads.js: the call-attempt limiter.         *)
(***************************************************************************)
\* generateCallId(): the id of the n-th request that gets one.
NewCallId(n) == <<"c1", "c2", "c3", "c4">>[n]

\* const attempts = callAttempts.get(to) || 0; if (attempts >= 2) return
\* reply.send({ success: false, ... })
Refused(to) == callAttempts[to] >= MaxAttempts

\* The handler up to its await: the limit test, then the session is stored
\* and twilioClient.calls.create is started with `attempts` as read.
LeadsMakeCallTo(to) ==
    /\ nMakeCall < MaxMakeCall
    /\ nMakeCall' = nMakeCall + 1
    /\ IF Refused(to)
       THEN UNCHANGED <<activeCallSessions, making>>
       ELSE /\ activeCallSessions' =
                  [c \in DOMAIN activeCallSessions \cup {NewCallId(nMakeCall + 1)} |->
                      IF c = NewCallId(nMakeCall + 1) THEN Lead
                      ELSE activeCallSessions[c]]
            /\ making' = making \cup {[callId |-> NewCallId(nMakeCall + 1),
                                       to |-> to,
                                       attempts |-> callAttempts[to]]}
    /\ UNCHANGED <<callAttempts, placedCalls, pairVars, bridgeVars, wireVars,
                   peerVars, now, callState, terminalAt, nStatus, expiries,
                   toolVars>>

LeadsMakeCall == \E to \in Tos : LeadsMakeCallTo(to)

\* calls.create resolves: the call is placed; callAttempts.set(to,
\* attempts + 1) with the count read before the await.
LeadsCallCreated ==
    /\ \E r \in making :
        /\ making' = making \ {r}
        /\ placedCalls' = [placedCalls EXCEPT ![r.to] = @ + 1]
        /\ callAttempts' = [callAttempts EXCEPT ![r.to] = r.attempts + 1]
    /\ UNCHANGED <<nMakeCall, pairVars, bridgeVars, wireVars, peerVars, now,
                   registryVars, toolVars>>

\* calls.create rejects: the catch branch answers 500, no call is placed.
LeadsCallCreateFails ==
    /\ \E r \in making : making' = making \ {r}
    /\ UNCHANGED <<callAttempts, placedCalls, nMakeCall, pairVars, bridgeVars,
                   wireVars, peerVars, now, registryVars, toolVars>>

(***************************************************************************)
(* Two calls at once: each /media-stream connection runs the handler once, *)
(* so each call has its own openAiWs, streamSid, callId, leadData,         *)
(* lastCommitTs and timers; the maps are the only state they share.        *)
(***************************************************************************)
\* The variables of one bridge, its two transports and its peers.
Fields == {"oaReadyState", "twReadyState", "streamSid", "callId", "leadData",
           "lastCommitTs", "oaPing", "twilioPing", "oaSent", "twSent",
           "inSeq", "outSeq", "inFlight", "earlyDeltas", "toolCalls",
           "stopSeen"}

\* The bridge whose events are being handled.
Here ==
    [oaReadyState |-> oaReadyState, twReadyState |-> twReadyState,
     streamSid |-> streamSid, callId |-> callId, leadData |-> leadData,
     lastCommitTs |-> lastCommitTs, oaPing |-> oaPing,
     twilioPing |-> twilioPing, oaSent |-> oaSent, twSent |-> twSent,
     inSeq |-> inSeq, outSeq |-> outSeq, inFlight |-> inFlight,
     earlyDeltas |-> earlyDeltas, toolCalls |-> toolCalls,
     stopSeen |-> stopSeen]

\* A bridge right after its connection was accepted.
FreshBridge ==
    [oaReadyState |-> "CONNECTING", twReadyState |-> "OPEN",
     streamSid |-> Null, callId |-> Null, leadData |-> NoLead,
     lastCommitTs |-> 0, oaPing |-> TRUE, twilioPing |-> TRUE,
     oaSent |-> <<>>, twSent |-> <<>>, inSeq |-> 0, outSeq |-> 0,
     inFlight |-> 0, earlyDeltas |-> {}, toolCalls |-> 0, stopSeen |-> FALSE]

\* A plausible slip: `let streamSid` is declared outside the handler.
ModuleScope_StreamSid == {"streamSid"}

\* The bridge variables declared at module scope, one for all calls: none,
\* all are declared with `let`/`const` inside the connection handler.
ModuleScope == {}

\* The other call's bridge as that call sees it: its own variables, and the
\* one shared copy of a variable of module scope.
OtherView == [f \in Fields |-> IF f \in ModuleScope THEN Here[f] ELSE otherCall[f]]

\* The event loop turns from the events of one call to those of the other.
SwitchCall ==
    /\ nSwitch < MaxSwitch
    /\ nSwitch' = nSwitch + 1
    /\ cur' = 3 - cur
    /\ otherCall' = Here
    /\ oaReadyState' = OtherView.oaReadyState
    /\ twReadyState' = OtherView.twReadyState
    /\ streamSid' = OtherView.streamSid
    /\ callId' = OtherView.callId
    /\ leadData' = OtherView.leadData
    /\ lastCommitTs' = OtherView.lastCommitTs
    /\ oaPing' = OtherView.oaPing
    /\ twilioPing' = OtherView.twilioPing
    /\ oaSent' = OtherView.oaSent
    /\ twSent' = OtherView.twSent
    /\ inSeq' = OtherView.inSeq
    /\ outSeq' = OtherView.outSeq
    /\ inFlight' = OtherView.inFlight
    /\ earlyDeltas' = OtherView.earlyDeltas
    /\ toolCalls' = OtherView.toolCalls
    /\ stopSeen' = OtherView.stopSeen
    /\ UNCHANGED <<limiterVars, now, registryVars, toolVars>>

(***************************************************************************)
(* Specification of the bridge.                                            *)
(***************************************************************************)
Init ==
    /\ oaReadyState = "CONNECTING"
    /\ twReadyState = "OPEN"
    /\ streamSid = Null
    /\ callId = Null
    /\ leadData = NoLead
    /\ lastCommitTs = 0
    /\ oaPing = TRUE
    /\ twilioPing = TRUE
    /\ oaSent = <<>>
    /\ twSent = <<>>
    /\ now = Epoch
    /\ inSeq = 0
    /\ outSeq = 0
    /\ inFlight = 0
    /\ earlyDeltas = {}
    /\ toolCalls = 0
    /\ stopSeen = FALSE
    /\ activeCallSessions = [c \in {"c1"} |-> Lead]
    /\ callState = [c \in CallIds |-> IF c = "c1" THEN "placed" ELSE "none"]
    /\ terminalAt = [c \in CallIds |-> 0]
    /\ nStatus = 0
    /\ expiries = <<>>
    /\ bookedDemos = <<>>
    /\ today = 1
    /\ slackUrl = FALSE
    /\ adminPhone = FALSE
    /\ booking = [n \in 1..MaxBookings |-> NoBooking]
    /\ nBooked = 0
    /\ reply = NoReply
    /\ cur = 1
    /\ otherCall = FreshBridge
    /\ nSwitch = 0
    /\ callAttempts = [to \in Tos |-> 0]
    /\ making = {}
    /\ placedCalls = [to \in Tos |-> 0]
    /\ nMakeCall = 0

Next ==
    \/ OaOpen
    \/ OaAudioDelta
    \/ OaSpeechStopped
    \/ OaResponseDone
    \/ OaToolCall
    \/ OaErrorEvent
    \/ OaOtherEvent
    \/ OaBadJson
    \/ OaClose
    \/ OaError
    \/ OaPingFire
    \/ TwStart
    \/ TwMediaIn
    \/ TwStop
    \/ TwOtherEvent
    \/ TwBadJson
    \/ TwClose
    \/ TwError
    \/ TwPingFire
    \/ Tick

Spec == Init /\ [][Next]_vars

(***************************************************************************)
(* Specification of the tool endpoint: no call is being bridged.           *)
(***************************************************************************)
\* The days the endpoint is exercised on: Monday Jan 1, Friday Jan 5 and
\* Saturday Jan 6.
Todays == {1, 5, 6}

ToolInit ==
    /\ oaReadyState = "CLOSED"
    /\ twReadyState = "CLOSED"
    /\ streamSid = Null
    /\ callId = Null
    /\ leadData = NoLead
    /\ lastCommitTs = 0
    /\ oaPing = FALSE
    /\ twilioPing = FALSE
    /\ oaSent = <<>>
    /\ twSent = <<>>
    /\ now = Epoch
    /\ inSeq = 0
    /\ outSeq = 0
    /\ inFlight = 0
    /\ earlyDeltas = {}
    /\ toolCalls = 0
    /\ stopSeen = FALSE
    /\ activeCallSessions = [c \in {"c1"} |-> Lead]
    /\ callState = [c \in CallIds |-> IF c = "c1" THEN "placed" ELSE "none"]
    /\ terminalAt = [c \in CallIds |-> 0]
    /\ nStatus = 0
    /\ expiries = <<>>
    /\ bookedDemos = <<>>
    /\ today \in Todays
    /\ slackUrl \in BOOLEAN
    /\ adminPhone \in BOOLEAN
    /\ booking = [n \in 1..MaxBookings |-> NoBooking]
    /\ nBooked = 0
    /\ reply = NoReply
    /\ cur = 1
    /\ otherCall = FreshBridge
    /\ nSwitch = 0
    /\ callAttempts = [to \in Tos |-> 0]
    /\ making = {}
    /\ placedCalls = [to \in Tos |-> 0]
    /\ nMakeCall = 0

ToolNext ==
    \/ CheckAvailability
    \/ BookDemo
    \/ SlackSettles
    \/ SmsSettles
    \/ UnknownTool
    \/ ToolTick

ToolSpec == ToolInit /\ [][ToolNext]_vars

(***************************************************************************)
(* Specification of the registry: calls are initiated and reported on, the *)
(* clock advances, and one media stream awaits its start event.            *)
(***************************************************************************)
RegistryInit ==
    /\ oaReadyState = "CONNECTING"
    /\ twReadyState = "OPEN"
    /\ streamSid = Null
    /\ callId = Null
    /\ leadData = NoLead
    /\ lastCommitTs = 0
    /\ oaPing = TRUE
    /\ twilioPing = TRUE
    /\ oaSent = <<>>
    /\ twSent = <<>>
    /\ now = Epoch
    /\ inSeq = 0
    /\ outSeq = 0
    /\ inFlight = 0
    /\ earlyDeltas = {}
    /\ toolCalls = 0
    /\ stopSeen = FALSE
    /\ activeCallSessions = <<>>
    /\ callState = [c \in CallIds |-> "none"]
    /\ terminalAt = [c \in CallIds |-> 0]
    /\ nStatus = 0
    /\ expiries = <<>>
    /\ bookedDemos = <<>>
    /\ today = 1
    /\ slackUrl = FALSE
    /\ adminPhone = FALSE
    /\ booking = [n \in 1..MaxBookings |-> NoBooking]
    /\ nBooked = 0
    /\ reply = NoReply
    /\ cur = 1
    /\ otherCall = FreshBridge
    /\ nSwitch = 0
    /\ callAttempts = [to \in Tos |-> 0]
    /\ making = {}
    /\ placedCalls = [to \in Tos |-> 0]
    /\ nMakeCall = 0

RegistryNext ==
    \/ MakeCallRejected
    \/ MakeCall
    \/ CallPlaced
    \/ CallPlaceFails
    \/ CallStatus
    \/ Clock
    \/ TwStart

RegistrySpec == RegistryInit /\ [][RegistryNext]_vars

(***************************************************************************)
(* Specification of two calls bridged at once, both placed by /make-call.  *)
(***************************************************************************)
PairInit ==
    /\ oaReadyState = "CONNECTING"
    /\ twReadyState = "OPEN"
    /\ streamSid = Null
    /\ callId = Null
    /\ leadData = NoLead
    /\ lastCommitTs = 0
    /\ oaPing = TRUE
    /\ twilioPing = TRUE
    /\ oaSent = <<>>
    /\ twSent = <<>>
    /\ now = Epoch
    /\ inSeq = 0
    /\ outSeq = 0
    /\ inFlight = 0
    /\ earlyDeltas = {}
    /\ toolCalls = 0
    /\ stopSeen = FALSE
    /\ activeCallSessions = [c \in CallIds |-> LeadOf(c)]
    /\ callState = [c \in CallIds |-> "placed"]
    /\ terminalAt = [c \in CallIds |-> 0]
    /\ nStatus = 0
    /\ expiries = <<>>
    /\ bookedDemos = <<>>
    /\ today = 1
    /\ slackUrl = FALSE
    /\ adminPhone = FALSE
    /\ booking = [n \in 1..MaxBookings |-> NoBooking]
    /\ nBooked = 0
    /\ reply = NoReply
    /\ cur = 1
    /\ otherCall = FreshBridge
    /\ nSwitch = 0
    /\ callAttempts = [to \in Tos |-> 0]
    /\ making = {}
    /\ placedCalls = [to \in Tos |-> 0]
    /\ nMakeCall = 0

PairNext ==
    \/ OaOpen
    \/ OaAudioDelta
    \/ OaErrorEvent
    \/ OaClose
    \/ OaError
    \/ TwStart
    \/ TwStop
    \/ TwClose
    \/ TwError
    \/ SwitchCall

PairSpec == PairInit /\ [][PairNext]_vars

(***************************************************************************)
(* Specification of the call-attempt limiter.                              *)
(***************************************************************************)
LimiterInit == RegistryInit

LimiterNext ==
    \/ LeadsMakeCall
    \/ LeadsCallCreated
    \/ LeadsCallCreateFails

LimiterSpec == LimiterInit /\ [][LimiterNext]_vars

(***************************************************************************)
(* Properties of the bridge.                                               *)
(***************************************************************************)
\* Positions of oaSent holding a message of the given type and sender.
SentAt(type, by) ==
    {i \in 1..Len(oaSent) : oaSent[i].type = type /\ oaSent[i].by = by}

\* Chunks the telephony transport has been sent, in order.
TwPayloads == [i \in 1..Len(twSent) |-> twSent[i].payload]

\* C1: at most one model response is in flight: no response.create is sent
\* (by the greeting, a speech-stopped signal or a stop event) while an earlier
\* requested response has not been reported done.
C1_AtMostOneInFlight == inFlight <= 1

\* Audio pending after the first n messages of oaSent: the chunks appended
\* since the last commit.
Pending(n) ==
    LET commits == {i \in 1..n : oaSent[i].type = "input_audio_buffer.commit"}
        last == IF commits = {} THEN 0
                ELSE CHOOSE i \in commits : \A j \in commits : j <= i
    IN  Cardinality({i \in (last + 1)..n :
                        oaSent[i].type = "input_audio_buffer.append"})

\* C2: after a speech-stopped signal with audio pending, a commit is sent
\* before the response request that follows the signal: every response.create
\* of the speech-stopped handler comes right after that handler's commit, with
\* no appended audio left uncommitted.
C2_CommitBeforeResponse ==
    \A i \in SentAt("response.create", "speech_stopped") :
        /\ i > 1
        /\ oaSent[i - 1].type = "input_audio_buffer.commit"
        /\ oaSent[i - 1].by = "speech_stopped"
        /\ Pending(i - 1) = 0

\* C2 witness: a speech-stopped signal arrived while an appended chunk was
\* uncommitted, and its response request has been sent.
C2_Witness ==
    \E i \in SentAt("response.create", "speech_stopped") :
        /\ i > 2
        /\ Pending(i - 2) > 0

C4_ToolResultSent ==
    oaReadyState = "CLOSED" =>
        CountType(oaSent, "function_call_output") >= toolCalls

\* C5: session.update is sent at most once, and not before both the model
\* socket is open and the start event has supplied the stream id.
C5_SessionUpdateAfterStart ==
    /\ CountType(oaSent, "session.update") <= 1
    /\ CountType(oaSent, "session.update") = 1 =>
          (streamSid # Null /\ oaReadyState # "CONNECTING")

\* C6: the opening greeting trigger is sent to the model at most once per call.
C6_GreetingAtMostOnce == CountType(oaSent, "conversation.item.create") <= 1

\* C6 witness: the greeting has been sent, the stream has started and the
\* bridge has sent later messages to the model.
C6_Witness ==
    /\ CountType(oaSent, "conversation.item.create") = 1
    /\ streamSid # Null
    /\ Len(oaSent) > Len(OpenMsgs)

\* C7: once the telephony connection has closed, also when it closed before
\* the model socket finished opening, the model socket is not left open.
C7_ModelSocketClosedAfterTelephonyClose ==
    twReadyState = "CLOSED" => oaReadyState # "OPEN"

\* C8: once the model socket has closed or errored, the bridge has closed the
\* telephony connection.
C8_TelephonyClosedAfterModelClose ==
    oaReadyState = "CLOSED" => twReadyState = "CLOSED"

\* C9: after either socket has closed, both keepalive timers are cancelled.
C9_TimersCancelled ==
    (oaReadyState = "CLOSED" \/ twReadyState = "CLOSED") =>
        (~oaPing /\ ~twilioPing)

\* C21: a model `error` event received while the model socket is open does
\* not end the call: no socket is closed, no message is sent, and the stream
\* id, the lead data and the commit and response bookkeeping are unchanged.
C21_ErrorEventIgnored ==
    [][(OaErrorEvent /\ oaReadyState = "OPEN") =>
          /\ oaReadyState' = "OPEN"
          /\ UNCHANGED <<twReadyState, oaSent, twSent, streamSid, callId,
                         leadData, lastCommitTs, inFlight, oaPing, twilioPing>>]_vars

\* C21 witness: the state an error event is received in mid-call, which the
\* event leaves as it is: both sockets open, the stream started, audio
\* appended and a response in flight.
C21_Witness ==
    /\ ENABLED OaErrorEvent
    /\ oaReadyState = "OPEN" /\ twReadyState = "OPEN"
    /\ streamSid # Null
    /\ inFlight > 0
    /\ CountType(oaSent, "input_audio_buffer.append") > 0

C37_UnparsedOrUnknownIgnored ==
    [][(OaBadJson \/ TwBadJson \/ TwOtherEvent) =>
          UNCHANGED <<bridgeVars, wireVars, inFlight>>]_vars

\* C37 witness: the state such a message arrives in mid-call from either
\* side: both sockets open, the stream started, audio flowing both ways.
C37_Witness ==
    /\ ENABLED OaBadJson /\ ENABLED TwBadJson /\ ENABLED TwOtherEvent
    /\ oaReadyState = "OPEN" /\ twReadyState = "OPEN"
    /\ streamSid # Null
    /\ Len(twSent) > 0
    /\ Len(oaSent) > Len(OpenMsgs)
    /\ ENABLED TwMediaIn /\ ENABLED OaAudioDelta

\* C22: with two calls bridged at once, under every interleaving of their
\* events, a step of one call's bridge (an event, an error, a close) leaves
\* the other call's bridge state, its two sockets' traffic included, exactly
\* as it was; turning from one call to the other changes neither.
C22_CallsIsolated ==
    [][IF cur' = cur
       THEN OtherView' = OtherView
       ELSE OtherView' = Here /\ Here' = OtherView]_vars

\* C22 witness: the two calls were served in turns, each holds its own call
\* id and lead, one lost its model socket on an error and the other went on
\* sending on both of its sockets.
C22_Witness ==
    /\ nSwitch >= 2
    /\ callId # Null /\ otherCall.callId # Null /\ callId # otherCall.callId
    /\ leadData # otherCall.leadData
    /\ otherCall.oaReadyState = "CLOSED"
    /\ oaReadyState = "OPEN"
    /\ Len(oaSent) > Len(otherCall.oaSent)
    /\ Len(twSent) > 0

\* C23: every commit sent to the model, by the media handler, the
\* speech-stopped handler or the stop handler, is preceded by at least one
\* append since the previous commit.
C23_NoEmptyCommit ==
    \A i \in 1..Len(oaSent) :
        oaSent[i].type = "input_audio_buffer.commit" => Pending(i - 1) > 0

\* The append at position i of oaSent is followed at once by a commit of the
\* media handler.
CommittedAt(log, i) ==
    /\ i < Len(log)
    /\ log[i + 1].type = "input_audio_buffer.commit"
    /\ log[i + 1].by = "media"

Requests(msgs) == CountType(msgs, "response.create")

\* The chunks appended to the model's input buffer, in the order sent.
Appended(log) ==
    LET at == {i \in 1..Len(log) : log[i].type = "input_audio_buffer.append"}
    IN  [k \in 1..Cardinality(at) |->
            log[CHOOSE i \in at : Cardinality({j \in at : j <= i}) = k].audio]

\* C25: a telephony audio chunk received while the model socket is open
\* produces exactly one input_audio_buffer.append with that chunk, after the
\* appends of the chunks received before it; received while the model socket
\* is not open, it sends nothing to the model and leaves the commit
\* bookkeeping as it was.
C25_OneAppendPerChunk ==
    [][/\ (TwMediaEvent(TRUE) /\ oaReadyState = "OPEN") =>
             /\ Appended(oaSent') = Append(Appended(oaSent), inSeq')
             /\ SubSeq(oaSent', 1, Len(oaSent)) = oaSent
             /\ \A i \in 1..Len(Appended(oaSent)) : Appended(oaSent)[i] < inSeq'
       /\ (TwMediaIn /\ oaReadyState # "OPEN") =>
             UNCHANGED <<oaSent, lastCommitTs>>]_vars

\* C25 witness: two chunks arrived while the model socket was open and were
\* appended once each, in arrival order.
C25_Witness == inSeq = 2 /\ Appended(oaSent) = <<1, 2>>

C27_StopRequestsIfIdle ==
    [][TwStop =>
          IF oaReadyState = "OPEN"
          THEN Requests(oaSent') - Requests(oaSent) = (IF inFlight = 0 THEN 1 ELSE 0)
          ELSE oaSent' = oaSent]_vars

(***************************************************************************)
(* Properties of the tool endpoint.                                        *)
(***************************************************************************)
\* The weekday a `when` names: the weekday of its target date, or the weekend
\* day it spells.
NamesWeekend(when) ==
    \/ when \in {"saturday", "sunday"}
    \/ when \in {"today", "tomorrow"} /\ IsWeekend(TargetDate(when))

\* C10: an availability query whose `when` resolves to a Saturday or a
\* Sunday, "saturday" and "sunday" included, returns an empty slot list with
\* the weekend explanation, whatever the current weekday.
C10_WeekendEmpty ==
    (reply.tool = "check_availability" /\ NamesWeekend(reply.arg)) =>
        /\ reply.success
        /\ reply.slots = <<>>
        /\ reply.message = "No demos on weekends"

\* The five weekday names check_availability resolves, in the letter cases of
\* the model.
WeekdayNames == {"monday", "Monday", "friday"}

\* The availability request last answered named a weekday and was answered
\* with a date.
WeekdayResolved ==
    reply.tool = "check_availability" /\ reply.arg \in WeekdayNames /\ reply.success

\* The first date from `from` on, at most `from + 7`, that falls on the named
\* weekday.
FirstOccurrence(name, from) ==
    CHOOSE d \in from..(from + 7) :
        /\ DayName(d) = ToLowerCase(name)
        /\ \A e \in from..(d - 1) : DayName(e) # ToLowerCase(name)

\* C11 as stated: a weekday name resolves to its next occurrence at or after
\* today: today when today is that weekday, never more than 6 days ahead.
C11_AtOrAfterToday ==
    WeekdayResolved => reply.date = DateStr(FirstOccurrence(reply.arg, today))

\* C11 amended: a weekday name (monday to friday, in any letter case)
\* resolves to its next occurrence strictly after today, 1 to 7 days ahead:
\* when today is the named weekday the resolved date is a week from today.
C11_StrictlyAfterToday ==
    WeekdayResolved =>
        /\ reply.date = DateStr(FirstOccurrence(reply.arg, today + 1))
        /\ reply.dayName = Capitalize(ToLowerCase(reply.arg))

\* C11 witness: the weekday asked for is today's weekday and the request was
\* answered with a date.
C11_Witness == WeekdayResolved /\ DayName(today) = ToLowerCase(reply.arg)

\* The day of the month a date string names.
DateOf(dateStr) == CHOOSE d \in 1..31 : DateStr(d) = dateStr

\* The time labels of the catalog.
TimeLabels == {DEMO_SLOTS.monday[i] : i \in 1..Len(DEMO_SLOTS.monday)}

\* The time labels of the bookings made for a date: the bookings whose
\* datetime is that date, " at ", and a time label.
BookedOn(dateStr) ==
    {<<t>> : t \in {x \in TimeLabels :
                      \E id \in DOMAIN bookedDemos :
                          bookedDemos[id].datetime = dateStr \o <<" at ", x>>}}

\* C12: after any sequence of bookings, an availability request answered for
\* a weekday date lists exactly the catalog slots of that weekday, in catalog
\* order, minus the time labels of the bookings made for that date.
C12_CatalogMinusBooked ==
    [][(CheckAvailability /\ reply'.success /\ reply'.date # <<>>) =>
          reply'.slots = Filter(DEMO_SLOTS[DayName(DateOf(reply'.date))],
                                BookedOn(reply'.date))]_vars

\* The four required fields of book_demo are present.
Complete(args) ==
    /\ args.restaurantName # Missing
    /\ args.ownerName # Missing
    /\ args.phone # Missing
    /\ args.datetime # MissingStr

\* C13: book_demo with a required field missing is answered with a
\* ValidationError and creates no Booking: the ledger never holds a Booking
\* that lacks a required field.
C13_MissingFieldRejected ==
    /\ \A id \in DOMAIN bookedDemos : Complete(bookedDemos[id])
    /\ (reply.tool = "book_demo" /\ ~Complete(reply.arg)) =>
          reply.error = "ValidationError"

\* A step in which the handler of a book_demo request returns or throws:
\* at once when no notification is configured, else when the last awaited
\* notification settles.
HandlerEnds ==
    \/ BookDemo /\ booking' = booking
    \/ \E n \in 1..MaxBookings : booking[n] # NoBooking /\ booking'[n] = NoBooking

\* C14: book_demo with all four required fields returns a non-error result
\* carrying a confirmation id, and at that moment the ledger holds a Booking
\* with that id, the given fields and status "scheduled".
C14_BookingStored ==
    [][(HandlerEnds /\ Complete(reply'.arg)) =>
          /\ reply'.tool = "book_demo" /\ reply'.success /\ reply'.error = ""
          /\ reply'.confirmationId \in DOMAIN bookedDemos'
          /\ bookedDemos'[reply'.confirmationId] =
                [id |-> reply'.confirmationId,
                 restaurantName |-> reply'.arg.restaurantName,
                 ownerName |-> reply'.arg.ownerName,
                 phone |-> reply'.arg.phone,
                 datetime |-> reply'.arg.datetime,
                 status |-> "scheduled"]]_vars

\* C15: a tool call with a name other than check_availability and book_demo
\* returns the structured unknown-tool result and leaves the booking ledger
\* and the session registry unchanged.
C15_UnknownToolNoEffect ==
    [][UnknownTool =>
          /\ reply'.error = "Unknown tool" /\ ~reply'.failed /\ ~reply'.success
          /\ UNCHANGED <<bookedDemos, activeCallSessions>>]_vars

\* C15 witness: an unknown tool was answered while the ledger held a Booking
\* and the registry a session.
C15_Witness ==
    /\ reply.error = "Unknown tool"
    /\ DOMAIN bookedDemos # {}
    /\ DOMAIN activeCallSessions # {}

\* C16: a failure of the webhook or of the SMS notification never turns the
\* reply of book_demo into an error: whenever a handler that awaited a
\* notification ends, its reply is the success result with the confirmation
\* id, and the Booking is in the ledger.
C16_NotificationFailureHidden ==
    [][\A n \in 1..MaxBookings :
          (booking[n] # NoBooking /\ booking'[n] = NoBooking) =>
              /\ reply'.tool = "book_demo" /\ reply'.success /\ ~reply'.failed
              /\ reply'.error = ""
              /\ reply'.confirmationId = booking[n].id
              /\ booking[n].id \in DOMAIN bookedDemos']_vars

\* C16 witness: a request one of whose notifications failed has been answered
\* with the success result.
C16_Witness ==
    reply.tool = "book_demo" /\ reply.success /\ reply.notifyFailed

\* C17: the success reply of book_demo does not wait for the notifications:
\* no handler is ever left awaiting the webhook or the SMS before its reply.
C17_ReplyDoesNotWait ==
    \A n \in 1..MaxBookings : booking[n].stage \notin {"slack", "sms"}

\* C29: on the start event the call id is the callId of the transport's
\* custom parameters when one is given and the callId of the URL query only
\* when none is given, and the lead is what the registry holds for that id
\* at that moment (nothing when it holds no entry).
C29_CallIdFromParameters ==
    [][\A sid \in Sids, param \in StartParams, query \in StartQueries :
          TwStartEvent(sid, param, query) =>
             /\ callId' = IF param # Null THEN param ELSE query
             /\ leadData' = IF callId' \in DOMAIN activeCallSessions
                            THEN activeCallSessions[callId']
                            ELSE NoLead]_vars

\* C29 witness: the stream of the second call has started and the bridge
\* holds that call's lead, which differs from the first call's.
C29_Witness ==
    /\ streamSid # Null
    /\ callId = "c2"
    /\ {"c1", "c2"} \subseteq DOMAIN activeCallSessions
    /\ leadData = activeCallSessions["c2"]
    /\ leadData # activeCallSessions["c1"]

\* C31: book_demo for a date and slot that a Booking of the ledger already
\* holds is accepted: the ledger gains a second Booking beside the first,
\* and the request that waits for no notification is answered with success.
C31_DuplicateSlotAccepted ==
    [][(/\ BookDemo
        /\ bookedDemos'[now].datetime # MissingStr
        /\ \E id \in DOMAIN bookedDemos :
              bookedDemos[id].datetime = bookedDemos'[now].datetime) =>
          /\ Cardinality(DOMAIN bookedDemos') = Cardinality(DOMAIN bookedDemos) + 1
          /\ \A id \in DOMAIN bookedDemos : bookedDemos'[id] = bookedDemos[id]
          /\ AfterStore = "done" =>
                reply'.tool = "book_demo" /\ reply'.success]_vars

\* C32: after any sequence of earlier tool calls, book_demo calls stored
\* with fields missing included, a check_availability request that names a
\* day is answered with a structured result (slots, or the weekend
\* explanation) and never fails with an exception.
C32_AvailabilityNeverThrows ==
    [][(CheckAvailability /\ reply'.arg # NoArgs) =>
          /\ reply'.tool = "check_availability"
          /\ ~reply'.failed
          /\ reply'.success]_vars

\* C33: a Booking made for one calendar date never removes a slot from the
\* availability of another date, also when one date's label is a prefix of
\* the other's (Jan 1 and Jan 12): every catalog slot that no Booking made
\* for the answered date holds is listed.
C33_OtherDatesUntouched ==
    [][(CheckAvailability /\ reply'.success /\ reply'.date # <<>>) =>
          LET catalog == DEMO_SLOTS[DayName(DateOf(reply'.date))]
          IN  \A i \in 1..Len(catalog) :
                  catalog[i] \notin BookedOn(reply'.date) =>
                      \E j \in 1..Len(reply'.slots) : reply'.slots[j] = catalog[i]]_vars

\* C30: a new booking never overwrites or replaces an existing one, also when
\* two bookings are made at the same clock reading: every Booking of the
\* ledger stays in it unchanged, and each book_demo call adds one.
C30_NeverOverwritten ==
    [][/\ \A id \in DOMAIN bookedDemos :
             id \in DOMAIN bookedDemos' /\ bookedDemos'[id] = bookedDemos[id]
       /\ BookDemo => Cardinality(DOMAIN bookedDemos') =
                         Cardinality(DOMAIN bookedDemos) + 1]_vars

(***************************************************************************)
(* Properties of the session registry.                                     *)
(***************************************************************************)
\* The expiry delay scheduled for a session id has elapsed: a terminal status
\* of its call came at least ExpiryDelayMs ago.
Elapsed(id) == terminalAt[id] # 0 /\ now >= terminalAt[id] + ExpiryDelayMs

\* C18: once the expiry delay scheduled for a session id has elapsed, a
\* registry lookup of that id returns none, and a start event carrying that id
\* sets the stream id and resolves no lead metadata, the connection staying
\* open.
C18_ExpiredLookupIsNone ==
    /\ [](\A id \in CallIds :
             Elapsed(id) => (id \notin DOMAIN activeCallSessions /\ SessionGet(id) = NoLead))
    /\ [][(TwStart /\ callId' \in CallIds /\ Elapsed(callId')) =>
             (leadData' = NoLead /\ streamSid' \in Sids /\ twReadyState' = "OPEN")]_vars

\* C18 witness: the stream has started with a session id whose expiry delay
\* has elapsed, and no lead metadata was resolved.
C18_Witness ==
    /\ streamSid # Null
    /\ callId \in CallIds
    /\ Elapsed(callId)
    /\ leadData = NoLead

C34_ExpiryIdempotentLocal ==
    [][Clock =>
          LET ran == {i \in 1..Len(expiries) : expiries[i].due <= now'}
              ids == {expiries[i].id : i \in ran}
          IN  /\ DOMAIN activeCallSessions' = DOMAIN activeCallSessions \ ids
              /\ \A c \in DOMAIN activeCallSessions' :
                    activeCallSessions'[c] = activeCallSessions[c]
              /\ (ids \cap DOMAIN activeCallSessions = {}) =>
                    activeCallSessions' = activeCallSessions]_vars

\* C34 witness: a session was removed by the first of two timers scheduled
\* for its id by repeated terminal reports; the second timer is still to run
\* and a session with another id is in the registry.
C34_Witness ==
    /\ ENABLED Clock
    /\ \E i \in 1..Len(expiries) :
          /\ expiries[i].id \in CallIds
          /\ expiries[i].id \notin DOMAIN activeCallSessions
          /\ terminalAt[expiries[i].id] # 0
    /\ DOMAIN activeCallSessions # {}

\* C35: the call-attempt limiter never lets more than 2 calls be placed to
\* one destination number, also with several make-call requests for the
\* number in progress at once; a request the limit refuses stores no session
\* and starts no call.
C35_AtMostTwoCalls ==
    /\ [](\A to \in Tos : placedCalls[to] <= 2)
    /\ [][\A to \in Tos :
             (LeadsMakeCallTo(to) /\ callAttempts[to] >= 2) =>
                UNCHANGED <<activeCallSessions, making, placedCalls>>]_vars

\* C20: every registry entry created by a call initiation is eventually
\* removed, also when placing the call fails; stated on what can still
\* remove it: every session in the registry has its call being placed or in
\* progress (a terminal status is still to come) or a deletion scheduled.
C20_EverySessionGetsRemoved ==
    \A id \in DOMAIN activeCallSessions :
        \/ callState[id] \in {"placing", "placed"}
        \/ \E i \in 1..Len(expiries) : expiries[i].id = id

=============================================================================
